---- MODULE Spec2Model ----
(***************************************************************************)
(* Model of the Digimon web front-end: the request handlers of             *)
(* src/controllers/digimon.controllers.go, the transport client of         *)
(* src/services/digimon.service.go and the route table of the routes       *)
(* package.  A request is handled in two steps: the handler runs up to the *)
(* blocking httpClient.Do, the upstream answers (or the call fails), and   *)
(* the handler runs from the return of the transport client to its         *)
(* response.                                                               *)
(*                                                                         *)
(* Strings that the code inspects character by character (TrimSpace, Atoi, *)
(* URL escaping) are sequences of one-character strings; strings that are  *)
(* only compared as a whole (checkbox values) are TLA+ strings.            *)
(***************************************************************************)
EXTENDS Integers, Sequences, FiniteSets, TLC

\* ------------------------------------------------------------------ bounds

\* longest request string (page, id, query, level, name ...) that is enumerated
MaxStrLen == 2
\* largest totalPages an upstream list page reports
MaxTotalPages == 5
\* longest content list of an upstream list page or group
MaxContent == 2

\* ------------------------------------------------------- program constants

StatusOK == 200
StatusSeeOther == 303
StatusBadRequest == 400
StatusNotFound == 404
StatusInternalServerError == 500

digimonAPIBaseURL == "https://digi-api.com/api/v1"

\* the timeout of httpClient and of the context createContext derives, in seconds
defaultTimeout == 10

\* ----------------------------------------------------------------- strings

Strs(A) == UNION {[1..n -> A] : n \in 0..MaxStrLen}

\* the white space of the alphabets below (unicode.IsSpace holds of both)
Space == {" ", "\t"}
Digits == {"0", "1", "2", "3", "4", "5", "6", "7", "8", "9"}
HexDigits == Digits \cup {"a", "b", "c", "d", "e", "f", "A", "B", "C", "D", "E", "F"}

\* the alphabets request strings are drawn from
NumChars == {"-", "+", "0", "1", "2", "a"}
QueryChars == {" ", "\t", "a", "&"}
FilterChars == {" ", "R"}
NameChars == {"g", "%"}
\* raw values of a checkbox field ("" is also what FormValue gives an absent field)
FlagValues == {"", "true", "on", "1", "TRUE", "false"}

RECURSIVE TrimLeft(_)
TrimLeft(s) ==
  IF s = <<>> THEN s
  ELSE IF Head(s) \in Space THEN TrimLeft(Tail(s)) ELSE s

RECURSIVE TrimRight(_)
TrimRight(s) ==
  IF s = <<>> THEN s
  ELSE IF s[Len(s)] \in Space THEN TrimRight(SubSeq(s, 1, Len(s) - 1)) ELSE s

\* strings.TrimSpace
TrimSpace(s) == TrimRight(TrimLeft(s))

DigitVal(c) ==
  CASE c = "0" -> 0 [] c = "1" -> 1 [] c = "2" -> 2 [] c = "3" -> 3 [] c = "4" -> 4
    [] c = "5" -> 5 [] c = "6" -> 6 [] c = "7" -> 7 [] c = "8" -> 8 [] c = "9" -> 9

RECURSIVE DigitsVal(_)
DigitsVal(s) ==
  IF s = <<>> THEN 0
  ELSE 10 * DigitsVal(SubSeq(s, 1, Len(s) - 1)) + DigitVal(s[Len(s)])

\* strconv.Atoi: an optional sign and at least one decimal digit, nothing else
\* (the range error needs 19 digits and more, beyond the strings enumerated).
Atoi(s) ==
  LET signed == s # <<>> /\ Head(s) \in {"+", "-"}
      body == IF signed THEN Tail(s) ELSE s
  IN IF body = <<>> \/ \E i \in 1..Len(body) : body[i] \notin Digits
       THEN [ok |-> FALSE, val |-> 0]
       ELSE [ok |-> TRUE,
             val |-> IF signed /\ Head(s) = "-" THEN 0 - DigitsVal(body) ELSE DigitsVal(body)]

DigitChar(d) ==
  CASE d = 0 -> "0" [] d = 1 -> "1" [] d = 2 -> "2" [] d = 3 -> "3" [] d = 4 -> "4"
    [] d = 5 -> "5" [] d = 6 -> "6" [] d = 7 -> "7" [] d = 8 -> "8" [] d = 9 -> "9"

RECURSIVE NatStr(_)
NatStr(n) == IF n < 10 THEN <<DigitChar(n)>> ELSE NatStr(n \div 10) \o <<DigitChar(n % 10)>>

\* fmt.Sprintf("%d", n)
Sprintd(n) == IF n < 0 THEN <<"-">> \o NatStr(0 - n) ELSE NatStr(n)

\* url.QueryEscape of one character of the alphabets above
EscapeChar(c) ==
  CASE c = " " -> <<"+">>
    [] c = "\t" -> <<"%", "0", "9">>
    [] c = "&" -> <<"%", "2", "6">>
    [] c = "%" -> <<"%", "2", "5">>
    [] c = "+" -> <<"%", "2", "B">>
    [] OTHER -> <<c>>

RECURSIVE QueryEscape(_)
QueryEscape(s) == IF s = <<>> THEN <<>> ELSE EscapeChar(Head(s)) \o QueryEscape(Tail(s))

\* url.Parse of the path: a "%" must be followed by two hexadecimal digits
RECURSIVE ValidEscapes(_)
ValidEscapes(s) ==
  IF s = <<>> THEN TRUE
  ELSE IF Head(s) = "%"
    THEN Len(s) >= 3 /\ s[2] \in HexDigits /\ s[3] \in HexDigits
         /\ ValidEscapes(SubSeq(s, 4, Len(s)))
    ELSE ValidEscapes(Tail(s))

\* ------------------------------------------------------------- data model

\* a nil pointer and a nil error
Nil == [nil |-> TRUE]
NilErr == [nilerr |-> TRUE]

\* the zero value of DigimonListOptions; XAntibody is a *bool: "nil", "true" or "false"
DigimonListOptions ==
  [Name |-> <<>>, Exact |-> FALSE, Attribute |-> <<>>, XAntibody |-> "nil",
   Level |-> <<>>, Page |-> 0, PageSize |-> 0]

DigimonIds == {1, 2}
\* a DigimonSummary, by its ID
DigimonSummary(i) == [ID |-> i]
Contents == UNION {[1..n -> {DigimonSummary(i) : i \in DigimonIds}] : n \in 0..MaxContent}

\* ------------------------------------------------------- transport client

\* url.Values.Add
Add(q, k, v) == IF k \in DOMAIN q THEN [q EXCEPT ![k] = Append(@, v)] ELSE q @@ (k :> <<v>>)

\* url.Values.Encode writes the keys in sorted order (byte order of the key names)
SortedKeys == <<"attribute", "exact", "level", "name", "page", "pageSize", "xAntibody">>

RECURSIVE EncodeKeys(_, _)
EncodeKeys(q, ks) ==
  IF ks = <<>> THEN <<>>
  ELSE (IF Head(ks) \in DOMAIN q
          THEN [i \in 1..Len(q[Head(ks)]) |-> <<Head(ks), QueryEscape(q[Head(ks)][i])>>]
          ELSE <<>>)
       \o EncodeKeys(q, Tail(ks))

\* url.Values.Encode: the sequence of key=value pairs of the raw query
Encode(q) == EncodeKeys(q, SortedKeys)

\* an outbound GET: the URL path below the base URL and the raw query
Get(path, rawQuery) == [base |-> digimonAPIBaseURL, path |-> path, query |-> rawQuery]

\* ListQueryValues sending the page whenever it is not negative
ListQueryValues_PageFromZero(opts) ==
  LET q0 == <<>>
      q1 == IF opts.Name # <<>> THEN Add(q0, "name", opts.Name) ELSE q0
      q2 == IF opts.Exact THEN Add(q1, "exact", <<"t", "r", "u", "e">>) ELSE q1
      q3 == IF opts.Attribute # <<>> THEN Add(q2, "attribute", opts.Attribute) ELSE q2
      q4 == IF opts.XAntibody # "nil"
              THEN (IF opts.XAntibody = "true"
                      THEN Add(q3, "xAntibody", <<"t", "r", "u", "e">>)
                      ELSE Add(q3, "xAntibody", <<"f", "a", "l", "s", "e">>))
              ELSE q3
      q5 == IF opts.Level # <<>> THEN Add(q4, "level", opts.Level) ELSE q4
      q6 == IF opts.Page >= 0 THEN Add(q5, "page", Sprintd(opts.Page)) ELSE q5
      q7 == IF opts.PageSize > 0 THEN Add(q6, "pageSize", Sprintd(opts.PageSize)) ELSE q6
  IN q7

\* the values GetAllDigimons adds to the query for opts
ListQueryValues(opts) ==
  LET q0 == <<>>
      q1 == IF opts.Name # <<>> THEN Add(q0, "name", opts.Name) ELSE q0
      q2 == IF opts.Exact THEN Add(q1, "exact", <<"t", "r", "u", "e">>) ELSE q1
      q3 == IF opts.Attribute # <<>> THEN Add(q2, "attribute", opts.Attribute) ELSE q2
      q4 == IF opts.XAntibody # "nil"
              THEN (IF opts.XAntibody = "true"
                      THEN Add(q3, "xAntibody", <<"t", "r", "u", "e">>)
                      ELSE Add(q3, "xAntibody", <<"f", "a", "l", "s", "e">>))
              ELSE q3
      q5 == IF opts.Level # <<>> THEN Add(q4, "level", opts.Level) ELSE q4
      q6 == IF opts.Page > 0 THEN Add(q5, "page", Sprintd(opts.Page)) ELSE q5
      q7 == IF opts.PageSize > 0 THEN Add(q6, "pageSize", Sprintd(opts.PageSize)) ELSE q6
  IN q7

\* GetAllDigimons up to httpClient.Do: the request it sends
GetAllDigimonsRequest(opts) ==
  Get(<<"digimon">>, IF opts # Nil THEN Encode(ListQueryValues(opts)) ELSE <<>>)

\* the outcomes of httpClient.Do
NoCall == [kind |-> "none"]
\* a call that has just been issued: none of its deadline has elapsed
Pending == [kind |-> "pending", elapsed |-> 0]
Reply(status, body) == [kind |-> "reply", status |-> status, body |-> body]
Failure(cause) == [kind |-> "fail", cause |-> cause]

\* a response body: bytes that do not decode, or the JSON of a value
Malformed == [json |-> FALSE]
Json(v) == [json |-> TRUE, value |-> v]

Result(rec, status, err) == [rec |-> rec, status |-> status, err |-> err]

\* fetchReturn forgetting the error of an unexpected status code
fetchReturn_NoStatusError(n) ==
  IF n.kind = "fail"
    THEN Result(Nil, StatusInternalServerError,
                [msg |-> "erreur requete HTTP", cause |-> n.cause])
  ELSE IF n.status # StatusOK
    THEN Result(Nil, n.status, NilErr)
  ELSE IF ~n.body.json
    THEN Result(Nil, StatusInternalServerError, [msg |-> "erreur decodage JSON"])
  ELSE Result(n.body.value, n.status, NilErr)

\* what a fetch function returns once httpClient.Do has returned n
fetchReturn(n) ==
  IF n.kind = "fail"
    THEN Result(Nil, StatusInternalServerError,
                [msg |-> "erreur requete HTTP", cause |-> n.cause])
  ELSE IF n.status # StatusOK
    THEN Result(Nil, n.status, [msg |-> "code HTTP inattendu", code |-> n.status])
  ELSE IF ~n.body.json
    THEN Result(Nil, StatusInternalServerError, [msg |-> "erreur decodage JSON"])
  ELSE Result(n.body.value, n.status, NilErr)

\* what a fetch function returns when http.NewRequestWithContext fails
fetchNoRequest ==
  Result(Nil, StatusInternalServerError, [msg |-> "erreur creation requete"])

\* GetAllDigimons from the return of httpClient.Do
GetAllDigimons(n) == fetchReturn(n)

\* fetchDigimon, fetchAttribute, fetchLevel from the return of httpClient.Do
fetchDigimon(n) == fetchReturn(n)
fetchAttribute(n) == fetchReturn(n)
fetchLevel(n) == fetchReturn(n)

\* GetDigimonByID, GetDigimonByName, GetAttributeByName, GetLevelByName: the URL
GetDigimonByID(id) == Get(<<"digimon", Sprintd(id)>>, <<>>)
GetDigimonByName(name) == Get(<<"digimon", name>>, <<>>)
GetAttributeByName(name) == Get(<<"attribute", name>>, <<>>)
GetLevelByName(name) == Get(<<"level", name>>, <<>>)

\* http.NewRequestWithContext accepts the URL of g
RequestCreated(g) == Len(g.path) = 1 \/ ValidEscapes(g.path[2])

\* ------------------------------------------------------------------ state

\* the incoming requests; each is handled once, concurrently with the others
Reqs == {"r1", "r2"}

VARIABLES
  pc,    \* per request: "idle" (not yet received), "await" (blocked in httpClient.Do), "done";
         \* "off" for a request that never arrives
  req,   \* per request: the handler the router dispatched to and the form values it reads
  out,   \* per request: the upstream GETs issued for it, in order
  net,   \* per request: the state of its upstream call
  resp   \* per request: what the handler wrote to its ResponseWriter, in order

vars == <<pc, req, out, net, resp>>

NoReq == [path |-> "", handler |-> "none"]

\* no request has arrived, and none is in flight
Quiet ==
  /\ req = [r \in Reqs |-> NoReq]
  /\ out = [r \in Reqs |-> <<>>]
  /\ net = [r \in Reqs |-> NoCall]
  /\ resp = [r \in Reqs |-> <<>>]

\* one request arrives
Init ==
  /\ pc = [r \in Reqs |-> IF r = "r1" THEN "idle" ELSE "off"]
  /\ Quiet

\* ---------------------------------------------------------------- responses

\* a fixed message text (written without its accents); every message is a record, so
\* that any two of them can be compared
Text(t) == [fmt |-> t]

\* http.Error(w, msg, code)
HttpError(msg, code) == [kind |-> "error", status |-> code, text |-> msg, data |-> Nil]

\* http.Redirect(w, r, url, code)
HttpRedirect(url, code) ==
  [kind |-> "redirect", status |-> code, text |-> [location |-> url], data |-> Nil]

\* helper.RenderTemplate(w, r, name, data); the handler sets no status itself (0)
RenderTemplate(name, data) ==
  [kind |-> "render", status |-> 0, text |-> [template |-> name], data |-> data]

\* a nil dereference: net/http recovers the panic and drops the connection
Panic ==
  [kind |-> "panic", status |-> 0, text |-> Text("nil pointer dereference"), data |-> Nil]

\* ServiceError answering every failure with 500 instead of the code it was given
ServiceError_Always500(code, err) ==
  IF err = NilErr THEN Panic
  ELSE HttpError([fmt |-> "Erreur service - code: %d message: %s",
                  code |-> code, message |-> err], StatusInternalServerError)

\* fmt.Sprintf("Erreur service - code: %d\nmessage: %s", code, err.Error()) sent with
\* http.Error under status code
ServiceError(code, err) ==
  IF err = NilErr THEN Panic
  ELSE HttpError([fmt |-> "Erreur service - code: %d message: %s",
                  code |-> code, message |-> err], code)

\* the test every handler makes of what the transport client returned
Failed(res) == res.status # StatusOK \/ res.err # NilErr

\* ------------------------------------------------------------ handler steps

\* digimonsRoutes and testRoutes: the handler bound to each path
Routes ==
  [p \in {"/digimons", "/digimons/paginated", "/digimons/search",
          "/digimons/search/advanced", "/digimons/filter/form", "/digimons/filter",
          "/digimons/filter/advanced", "/digimon/details", "/digimon/details/name",
          "/digimons/by-attribute", "/digimons/by-level", "/test"} |->
     CASE p = "/digimons" -> "DisplayListDigimons"
       [] p = "/digimons/paginated" -> "DisplayListDigimonsWithPagination"
       [] p = "/digimons/search" -> "DisplaySearch"
       [] p = "/digimons/search/advanced" -> "DisplaySearchAdvanced"
       [] p = "/digimons/filter/form" -> "DisplayFilterForm"
       [] p = "/digimons/filter" -> "DisplayFilter"
       [] p = "/digimons/filter/advanced" -> "DisplayFilterAdvanced"
       [] p = "/digimon/details" -> "DisplayDigimonDetails"
       [] p = "/digimon/details/name" -> "DisplayDigimonDetailsByName"
       [] p = "/digimons/by-attribute" -> "DisplayDigimonsByAttribute"
       [] p = "/digimons/by-level" -> "DisplayDigimonsByLevel"
       [] p = "/test" -> "TestDisplay"]

\* request r arrives for path and is dispatched to handler h, which reads form
Accept(r, path, h, form) ==
  /\ pc[r] = "idle"
  /\ Routes[path] = h
  /\ req' = [req EXCEPT ![r] = [path |-> path, handler |-> h, form |-> form]]

\* the handler returns without calling the upstream
Local(r, w) ==
  /\ resp' = [resp EXCEPT ![r] = Append(@, w)]
  /\ pc' = [pc EXCEPT ![r] = "done"]
  /\ UNCHANGED <<out, net>>

\* the handler writes w and returns
Respond(r, w) ==
  /\ resp' = [resp EXCEPT ![r] = Append(@, w)]
  /\ pc' = [pc EXCEPT ![r] = "done"]

\* the handler enters httpClient.Do with request g and blocks
Do(r, g) ==
  /\ out' = [out EXCEPT ![r] = Append(@, g)]
  /\ net' = [net EXCEPT ![r] = Pending]
  /\ pc' = [pc EXCEPT ![r] = "await"]
  /\ UNCHANGED resp

\* httpClient.Do has returned to handler h of request r
Returned(r, h) ==
  /\ pc[r] = "await"
  /\ req[r].handler = h
  /\ net[r].kind \in {"reply", "fail"}

\* ----------------------------------------------------------------- upstream

\* the status codes the upstream answers with
UpstreamStatuses == {200, 204, 400, 404, 500, 503}

\* the character a %XY escape stands for
HexChar(x, y) ==
  CASE x = "0" /\ y = "9" -> "\t"
    [] x = "2" /\ y = "6" -> "&"
    [] x = "2" /\ y = "5" -> "%"
    [] x = "2" /\ y = "B" -> "+"

\* the receiving side of url.QueryEscape
RECURSIVE QueryUnescape(_)
QueryUnescape(s) ==
  IF s = <<>> THEN <<>>
  ELSE IF Head(s) = "+" THEN <<" ">> \o QueryUnescape(Tail(s))
  ELSE IF Head(s) = "%" THEN <<HexChar(s[2], s[3])>> \o QueryUnescape(SubSeq(s, 4, Len(s)))
  ELSE <<Head(s)>> \o QueryUnescape(Tail(s))

\* the raw query of g has a parameter k
HasParam(g, k) == \E i \in 1..Len(g.query) : g.query[i][1] = k

\* the value the upstream reads for parameter k of the raw query of g, or <<>>
Param(g, k) ==
  IF HasParam(g, k)
    THEN QueryUnescape(g.query[CHOOSE i \in 1..Len(g.query) : g.query[i][1] = k][2])
    ELSE <<>>

\* a list page of the upstream for request g: the page that was asked for, out of
\* totalPages pages, holding content
UpstreamListPage(g, content, totalPages) ==
  LET number == Atoi(Param(g, "page")).val
      size == IF Param(g, "pageSize") = <<>> THEN 20 ELSE Atoi(Param(g, "pageSize")).val
  IN [Content |-> content,
      TotalElements |-> IF totalPages = 0 THEN 0 ELSE (totalPages - 1) * size + Len(content),
      TotalPages |-> totalPages,
      Last |-> (number = totalPages - 1),
      First |-> (number = 0),
      Size |-> size,
      Number |-> number,
      NumberOfElements |-> Len(content),
      Empty |-> (content = <<>>)]

\* the bodies the upstream answers g with under status 200
UpstreamBodies(g) ==
  {Malformed} \cup
  IF g.path = <<"digimon">>
    THEN {Json(UpstreamListPage(g, c, tp)) :
            c \in Contents,
            tp \in {t \in 0..MaxTotalPages : Atoi(Param(g, "page")).val < t}}
         \cup {Json(UpstreamListPage(g, <<>>, tp)) : tp \in 0..MaxTotalPages}
  ELSE IF g.path[1] = "digimon"
    THEN {Json([ID |-> i, Name |-> g.path[2]]) : i \in DigimonIds}
  ELSE IF g.path[1] = "attribute"
    THEN {Json([ID |-> 1, Attribute |-> g.path[2], Digimons |-> c]) : c \in Contents}
  ELSE {Json([ID |-> 1, Level |-> g.path[2], Digimons |-> c]) : c \in Contents}

\* the upstream answers the pending call of r
UpstreamReply(r) ==
  /\ pc[r] = "await" /\ net[r].kind = "pending"
  /\ \E s \in UpstreamStatuses :
       \E b \in (IF s = StatusOK THEN UpstreamBodies(out[r][Len(out[r])]) ELSE {Malformed}) :
         net' = [net EXCEPT ![r] = Reply(s, b)]
  /\ UNCHANGED <<pc, req, out, resp>>

\* the call fails below HTTP: DNS, connection refused or dropped
TransportFailure(r) ==
  /\ pc[r] = "await" /\ net[r].kind = "pending"
  /\ net' = [net EXCEPT ![r] = Failure("transport")]
  /\ UNCHANGED <<pc, req, out, resp>>

\* a second of the deadline of r's call passes while the call is pending
Tick(r) ==
  /\ pc[r] = "await" /\ net[r].kind = "pending"
  /\ net[r].elapsed < defaultTimeout
  /\ net' = [net EXCEPT ![r].elapsed = @ + 1]
  /\ UNCHANGED <<pc, req, out, resp>>

\* DeadlineExceeded cancelling every pending call: one context shared by all requests
DeadlineExceeded_SharedContext(r) ==
  /\ pc[r] = "await" /\ net[r].kind = "pending"
  /\ net[r].elapsed = defaultTimeout
  /\ net' = [x \in Reqs |-> IF net[x].kind = "pending" THEN Failure("deadline") ELSE net[x]]
  /\ UNCHANGED <<pc, req, out, resp>>

\* DeadlineExceeded for a call made without a deadline: it never fires
DeadlineExceeded_NoDeadline(r) ==
  /\ pc[r] = "await" /\ net[r].kind = "pending"
  /\ FALSE
  /\ UNCHANGED vars

\* the deadline of the request's context elapses while the call is pending
DeadlineExceeded(r) ==
  /\ pc[r] = "await" /\ net[r].kind = "pending"
  /\ net[r].elapsed = defaultTimeout
  /\ net' = [net EXCEPT ![r] = Failure("deadline")]
  /\ UNCHANGED <<pc, req, out, resp>>

\* ----------------------------------------------------------------- handlers

DisplayListDigimons(r) ==
  /\ Accept(r, "/digimons", "DisplayListDigimons", <<>>)
  /\ Do(r, GetAllDigimonsRequest([DigimonListOptions EXCEPT !.PageSize = 100]))

\* DisplayListDigimonsReturn issuing the list call a second time when the first fails
DisplayListDigimonsReturn_RetryOnce(r) ==
  /\ Returned(r, "DisplayListDigimons")
  /\ LET res == GetAllDigimons(net[r])
     IN IF Failed(res) /\ Len(out[r]) < 2
          THEN Do(r, out[r][1]) /\ UNCHANGED req
          ELSE /\ Respond(r, IF Failed(res) THEN ServiceError(res.status, res.err)
                             ELSE IF res.rec = Nil THEN Panic
                             ELSE RenderTemplate("list_digimon", res.rec.Content))
               /\ UNCHANGED <<req, out, net>>

DisplayListDigimonsReturn(r) ==
  /\ Returned(r, "DisplayListDigimons")
  /\ LET res == GetAllDigimons(net[r])
     IN Respond(r, IF Failed(res) THEN ServiceError(res.status, res.err)
                   ELSE IF res.rec = Nil THEN Panic
                   ELSE RenderTemplate("list_digimon", res.rec.Content))
  /\ UNCHANGED <<req, out, net>>

\* PageOf without the test p > 0
PageOf_NoPositiveCheck(pageStr) ==
  LET p == Atoi(pageStr)
  IN IF pageStr # <<>> /\ p.ok THEN p.val ELSE 0

\* the page DisplayListDigimonsWithPagination uses for the page parameter
PageOf(pageStr) ==
  LET p == Atoi(pageStr)
  IN IF pageStr # <<>> /\ p.ok /\ p.val > 0 THEN p.val ELSE 0

\* the options DisplayListDigimonsWithPagination passes for page
PaginationOptions(page) == [DigimonListOptions EXCEPT !.Page = page, !.PageSize = 20]

\* PaginatedTemplateData with the two navigation flags exchanged
PaginatedTemplateData_Swapped(data, page) ==
  [Digimons |-> data.Content,
   CurrentPage |-> page,
   TotalPages |-> data.TotalPages,
   TotalDigimons |-> data.TotalElements,
   HasNext |-> ~data.First,
   HasPrevious |-> ~data.Last]

\* the view-model of the paginated list
PaginatedTemplateData(data, page) ==
  [Digimons |-> data.Content,
   CurrentPage |-> page,
   TotalPages |-> data.TotalPages,
   TotalDigimons |-> data.TotalElements,
   HasNext |-> ~data.Last,
   HasPrevious |-> ~data.First]

DisplayListDigimonsWithPagination(r) ==
  /\ pc[r] = "idle"
  /\ \E pageStr \in Strs(NumChars) :
    /\ Accept(r, "/digimons/paginated", "DisplayListDigimonsWithPagination",
              [page |-> pageStr])
    /\ Do(r, GetAllDigimonsRequest(PaginationOptions(PageOf(pageStr))))

DisplayListDigimonsWithPaginationReturn(r) ==
  /\ Returned(r, "DisplayListDigimonsWithPagination")
  /\ LET res == GetAllDigimons(net[r])
         page == PageOf(req[r].form.page)
     IN Respond(r, IF Failed(res) THEN ServiceError(res.status, res.err)
                   ELSE IF res.rec = Nil THEN Panic
                   ELSE RenderTemplate("list_digimon_paginated",
                                       PaginatedTemplateData(res.rec, page)))
  /\ UNCHANGED <<req, out, net>>

\* the raw value of a checkbox counts as checked
Checked(raw) == raw = "true" \/ raw = "on"

\* NormalizeQuery without the trimming
NormalizeQuery_NoTrim(raw) == raw

\* the query DisplaySearch works with: the form value, trimmed
NormalizeQuery(raw) == TrimSpace(raw)

\* the options DisplaySearch passes for the trimmed query
SearchOptions(query) == [DigimonListOptions EXCEPT !.Name = query, !.PageSize = 50]

DisplaySearch(r) ==
  /\ pc[r] = "idle"
  /\ \E raw \in Strs(QueryChars) :
    /\ Accept(r, "/digimons/search", "DisplaySearch", [query |-> raw])
    /\ LET query == NormalizeQuery(raw)
       IN IF query = <<>>
            THEN Local(r, HttpRedirect("/digimons", StatusSeeOther))
            ELSE Do(r, GetAllDigimonsRequest(SearchOptions(query)))

DisplaySearchReturn(r) ==
  /\ Returned(r, "DisplaySearch")
  /\ LET res == GetAllDigimons(net[r])
         query == NormalizeQuery(req[r].form.query)
     IN Respond(r, IF Failed(res) THEN ServiceError(res.status, res.err)
                   ELSE IF res.rec = Nil THEN Panic
                   ELSE RenderTemplate("search_digimon",
                          [Digimons |-> res.rec.Content,
                           Query |-> query,
                           Total |-> res.rec.TotalElements]))
  /\ UNCHANGED <<req, out, net>>

\* ExactOf recognising "true" only
ExactOf_OnlyTrue(raw) == raw = "true"

\* the exact flag DisplaySearchAdvanced derives from the raw form value
ExactOf(raw) == raw = "true" \/ raw = "on"

\* the options DisplaySearchAdvanced passes for the trimmed query and the flag
SearchAdvancedOptions(query, exact) ==
  [DigimonListOptions EXCEPT !.Name = query, !.Exact = exact, !.PageSize = 50]

DisplaySearchAdvanced(r) ==
  /\ pc[r] = "idle"
  /\ \E raw \in Strs(QueryChars), rawExact \in FlagValues :
    /\ Accept(r, "/digimons/search/advanced", "DisplaySearchAdvanced",
              [query |-> raw, exact |-> rawExact])
    /\ LET query == TrimSpace(raw)
           exact == ExactOf(rawExact)
       IN IF query = <<>>
            THEN Local(r, HttpRedirect("/digimons", StatusSeeOther))
            ELSE Do(r, GetAllDigimonsRequest(SearchAdvancedOptions(query, exact)))

DisplaySearchAdvancedReturn(r) ==
  /\ Returned(r, "DisplaySearchAdvanced")
  /\ LET res == GetAllDigimons(net[r])
         query == TrimSpace(req[r].form.query)
         exact == ExactOf(req[r].form.exact)
     IN Respond(r, IF Failed(res) THEN ServiceError(res.status, res.err)
                   ELSE IF res.rec = Nil THEN Panic
                   ELSE RenderTemplate("search_digimon",
                          [Digimons |-> res.rec.Content,
                           Query |-> query,
                           Exact |-> exact,
                           Total |-> res.rec.TotalElements]))
  /\ UNCHANGED <<req, out, net>>

\* FilterOptions asking for xAntibody=false when the box is not checked
FilterOptions_UncheckedIsFalse(level, attribute, xAntibodyStr) ==
  LET o0 == [DigimonListOptions EXCEPT !.PageSize = 100]
      o1 == IF level # <<>> THEN [o0 EXCEPT !.Level = level] ELSE o0
      o2 == IF attribute # <<>> THEN [o1 EXCEPT !.Attribute = attribute] ELSE o1
      o3 == [o2 EXCEPT !.XAntibody = IF Checked(xAntibodyStr) THEN "true" ELSE "false"]
  IN o3

\* the options DisplayFilter derives from its form values
FilterOptions(level, attribute, xAntibodyStr) ==
  LET o0 == [DigimonListOptions EXCEPT !.PageSize = 100]
      o1 == IF level # <<>> THEN [o0 EXCEPT !.Level = level] ELSE o0
      o2 == IF attribute # <<>> THEN [o1 EXCEPT !.Attribute = attribute] ELSE o1
      o3 == IF Checked(xAntibodyStr) THEN [o2 EXCEPT !.XAntibody = "true"] ELSE o2
  IN o3

DisplayFilter(r) ==
  /\ pc[r] = "idle"
  /\ \E parseErr \in BOOLEAN, rawLevel \in Strs(FilterChars), rawAttribute \in Strs(FilterChars),
     xAntibodyStr \in FlagValues :
    /\ Accept(r, "/digimons/filter", "DisplayFilter",
              [parseErr |-> parseErr, level |-> rawLevel, attribute |-> rawAttribute,
               xantibody |-> xAntibodyStr])
    /\ IF parseErr
         THEN Local(r, HttpError(Text("Erreur parsing formulaire"), StatusBadRequest))
         ELSE Do(r, GetAllDigimonsRequest(
                      FilterOptions(TrimSpace(rawLevel), TrimSpace(rawAttribute),
                                    xAntibodyStr)))

DisplayFilterReturn(r) ==
  /\ Returned(r, "DisplayFilter")
  /\ LET res == GetAllDigimons(net[r])
         f == req[r].form
     IN Respond(r, IF Failed(res) THEN ServiceError(res.status, res.err)
                   ELSE IF res.rec = Nil THEN Panic
                   ELSE RenderTemplate("filter_digimons",
                          [Digimons |-> res.rec.Content,
                           Level |-> TrimSpace(f.level),
                           Attribute |-> TrimSpace(f.attribute),
                           XAntibody |-> Checked(f.xantibody),
                           Total |-> res.rec.TotalElements,
                           TotalPages |-> res.rec.TotalPages]))
  /\ UNCHANGED <<req, out, net>>

\* the values r.Form holds for a multiple checkbox
LevelLists == {<<>>, <<"">>, <<"Rookie">>, <<"Rookie", "Mega">>}
AttributeLists == {<<>>, <<"Data">>}

DisplayFilterAdvanced(r) ==
  /\ pc[r] = "idle"
  /\ \E parseErr \in BOOLEAN, levels \in LevelLists, attributes \in AttributeLists,
     xAntibodyStr \in FlagValues :
    /\ Accept(r, "/digimons/filter/advanced", "DisplayFilterAdvanced",
              [parseErr |-> parseErr, levels |-> levels, attributes |-> attributes,
               xantibody |-> xAntibodyStr])
    /\ IF parseErr
         THEN Local(r, HttpError(Text("Erreur parsing formulaire"), StatusBadRequest))
         ELSE Do(r, GetAllDigimonsRequest([DigimonListOptions EXCEPT !.PageSize = 500]))

\* validDigimons keeping every digimon when only the X-Antibody box is supplied
RECURSIVE validDigimons_IgnoresXAntibody(_, _, _, _)
validDigimons_IgnoresXAntibody(content, levels, attributes, xAntibodyStr) ==
  IF content = <<>> THEN <<>>
  ELSE (IF Len(levels) = 0 /\ Len(attributes) = 0
          THEN <<Head(content)>> ELSE <<>>)
       \o validDigimons_IgnoresXAntibody(Tail(content), levels, attributes, xAntibodyStr)

\* the local filtering loop of DisplayFilterAdvanced
RECURSIVE validDigimons(_, _, _, _)
validDigimons(content, levels, attributes, xAntibodyStr) ==
  IF content = <<>> THEN <<>>
  ELSE (IF Len(levels) = 0 /\ Len(attributes) = 0 /\ xAntibodyStr = ""
          THEN <<Head(content)>> ELSE <<>>)
       \o validDigimons(Tail(content), levels, attributes, xAntibodyStr)

DisplayFilterAdvancedReturn(r) ==
  /\ Returned(r, "DisplayFilterAdvanced")
  /\ LET res == GetAllDigimons(net[r])
         f == req[r].form
     IN Respond(r, IF Failed(res) THEN ServiceError(res.status, res.err)
                   ELSE IF res.rec = Nil THEN Panic
                   ELSE LET valid == validDigimons(res.rec.Content, f.levels, f.attributes,
                                                   f.xantibody)
                        IN RenderTemplate("filter_digimons_advanced",
                             [Digimons |-> valid,
                              Levels |-> f.levels,
                              Attributes |-> f.attributes,
                              XAntibody |-> Checked(f.xantibody),
                              Total |-> Len(valid)]))
  /\ UNCHANGED <<req, out, net>>

\* DigimonDetailsResponse without the not-found case
DigimonDetailsResponse_No404(res) ==
  IF Failed(res) THEN ServiceError(res.status, res.err)
  ELSE IF res.rec = Nil THEN Panic
  ELSE RenderTemplate("digimon_details", res.rec)

\* DisplayDigimonDetails and DisplayDigimonDetailsByName from the return of the
\* transport client
DigimonDetailsResponse(res) ==
  IF Failed(res)
    THEN (IF res.status = StatusNotFound
            THEN HttpError(Text("Digimon non trouve"), StatusNotFound)
            ELSE ServiceError(res.status, res.err))
    ELSE IF res.rec = Nil THEN Panic
    ELSE RenderTemplate("digimon_details", res.rec)

\* ParseID without the test of Atoi's error
ParseID_NoAtoiCheck(idStr) ==
  IF idStr = <<>> THEN [reject |-> "ID manquant", id |-> 0]
  ELSE [reject |-> "", id |-> Atoi(idStr).val]

\* the checks DisplayDigimonDetails makes of the id parameter: the error message it
\* rejects the request with ("" when it accepts the id) and the id
ParseID(idStr) ==
  IF idStr = <<>> THEN [reject |-> "ID manquant", id |-> 0]
  ELSE IF ~Atoi(idStr).ok THEN [reject |-> "ID invalide", id |-> 0]
  ELSE [reject |-> "", id |-> Atoi(idStr).val]

DisplayDigimonDetails(r) ==
  /\ pc[r] = "idle"
  /\ \E idStr \in Strs(NumChars) :
    /\ Accept(r, "/digimon/details", "DisplayDigimonDetails", [id |-> idStr])
    /\ IF ParseID(idStr).reject # ""
         THEN Local(r, HttpError(Text(ParseID(idStr).reject), StatusBadRequest))
         ELSE Do(r, GetDigimonByID(ParseID(idStr).id))

DisplayDigimonDetailsReturn(r) ==
  /\ Returned(r, "DisplayDigimonDetails")
  /\ Respond(r, DigimonDetailsResponse(fetchDigimon(net[r])))
  /\ UNCHANGED <<req, out, net>>

DisplayDigimonDetailsByName(r) ==
  /\ pc[r] = "idle"
  /\ \E name \in Strs(NameChars) :
    /\ Accept(r, "/digimon/details/name", "DisplayDigimonDetailsByName", [name |-> name])
    /\ IF name = <<>>
         THEN Local(r, HttpError(Text("Nom manquant"), StatusBadRequest))
         ELSE IF ~RequestCreated(GetDigimonByName(name))
           THEN Local(r, DigimonDetailsResponse(fetchNoRequest))
           ELSE Do(r, GetDigimonByName(name))

DisplayDigimonDetailsByNameReturn(r) ==
  /\ Returned(r, "DisplayDigimonDetailsByName")
  /\ Respond(r, DigimonDetailsResponse(fetchDigimon(net[r])))
  /\ UNCHANGED <<req, out, net>>

\* DisplayDigimonsByAttribute from the return of the transport client
DigimonsByAttributeResponse(res) ==
  IF Failed(res) THEN ServiceError(res.status, res.err)
  ELSE IF res.rec = Nil THEN Panic
  ELSE RenderTemplate("digimons_by_attribute",
         [Attribute |-> res.rec.Attribute,
          Digimons |-> res.rec.Digimons,
          Total |-> Len(res.rec.Digimons)])

DisplayDigimonsByAttribute(r) ==
  /\ pc[r] = "idle"
  /\ \E attributeName \in Strs(NameChars) :
    /\ Accept(r, "/digimons/by-attribute", "DisplayDigimonsByAttribute",
              [attribute |-> attributeName])
    /\ IF attributeName = <<>>
         THEN Local(r, HttpError(Text("Attribut manquant"), StatusBadRequest))
         ELSE IF ~RequestCreated(GetAttributeByName(attributeName))
           THEN Local(r, DigimonsByAttributeResponse(fetchNoRequest))
           ELSE Do(r, GetAttributeByName(attributeName))

DisplayDigimonsByAttributeReturn(r) ==
  /\ Returned(r, "DisplayDigimonsByAttribute")
  /\ Respond(r, DigimonsByAttributeResponse(fetchAttribute(net[r])))
  /\ UNCHANGED <<req, out, net>>

\* DisplayDigimonsByLevel from the return of the transport client
DigimonsByLevelResponse(res) ==
  IF Failed(res) THEN ServiceError(res.status, res.err)
  ELSE IF res.rec = Nil THEN Panic
  ELSE RenderTemplate("digimons_by_level",
         [Level |-> res.rec.Level,
          Digimons |-> res.rec.Digimons,
          Total |-> Len(res.rec.Digimons)])

DisplayDigimonsByLevel(r) ==
  /\ pc[r] = "idle"
  /\ \E levelName \in Strs(NameChars) :
    /\ Accept(r, "/digimons/by-level", "DisplayDigimonsByLevel", [level |-> levelName])
    /\ IF levelName = <<>>
         THEN Local(r, HttpError(Text("Niveau manquant"), StatusBadRequest))
         ELSE IF ~RequestCreated(GetLevelByName(levelName))
           THEN Local(r, DigimonsByLevelResponse(fetchNoRequest))
           ELSE Do(r, GetLevelByName(levelName))

DisplayDigimonsByLevelReturn(r) ==
  /\ Returned(r, "DisplayDigimonsByLevel")
  /\ Respond(r, DigimonsByLevelResponse(fetchLevel(net[r])))
  /\ UNCHANGED <<req, out, net>>

GetAvailableLevels ==
  <<"Fresh", "In-Training", "Rookie", "Champion", "Ultimate", "Mega", "Ultra", "Armor">>

GetAvailableAttributes == <<"Vaccine", "Data", "Virus", "Free", "Unknown">>

DisplayFilterForm(r) ==
  /\ Accept(r, "/digimons/filter/form", "DisplayFilterForm", <<>>)
  /\ Local(r, RenderTemplate("filter_form",
                [Levels |-> GetAvailableLevels, Attributes |-> GetAvailableAttributes]))

TestDisplay(r) ==
  /\ Accept(r, "/test", "TestDisplay", <<>>)
  /\ Local(r, RenderTemplate("exemple_formulaire", Nil))

\* ------------------------------------------------------------ specification

\* the list queries a caller of the service passes: a nil pointer, or options with
\* any of the fields set or left at its zero value
ListQueries ==
  {Nil} \cup
  [Name : {<<>>, <<"g">>, <<" ">>, <<"%">>},
   Exact : BOOLEAN,
   Attribute : {<<>>, <<"V">>},
   XAntibody : {"nil", "true", "false"},
   Level : {<<>>, <<"R">>},
   Page : {-1, 0, 2},
   PageSize : {-1, 0, 20}]

\* GetAllDigimonsSimple called directly with opts: GetAllDigimons under
\* context.Background(), up to httpClient.Do
GetAllDigimonsSimple(r) ==
  /\ pc[r] = "idle"
  /\ \E opts \in ListQueries :
       /\ req' = [req EXCEPT ![r] = [path |-> "", handler |-> "GetAllDigimonsSimple",
                                     form |-> opts]]
       /\ Do(r, GetAllDigimonsRequest(opts))

\* GetAllDigimonsSimple returns to its caller what GetAllDigimons returns
GetAllDigimonsSimpleReturn(r) ==
  /\ Returned(r, "GetAllDigimonsSimple")
  /\ LET res == GetAllDigimons(net[r])
     IN Respond(r, [kind |-> "return", status |-> res.status, text |-> res.err,
                    data |-> res.rec])
  /\ UNCHANGED <<req, out, net>>

Next ==
  \E r \in Reqs :
    \/ DisplayListDigimons(r)
    \/ DisplayListDigimonsReturn(r)
    \/ DisplayListDigimonsWithPagination(r)
    \/ DisplayListDigimonsWithPaginationReturn(r)
    \/ DisplaySearch(r)
    \/ DisplaySearchReturn(r)
    \/ DisplaySearchAdvanced(r)
    \/ DisplaySearchAdvancedReturn(r)
    \/ DisplayFilter(r)
    \/ DisplayFilterReturn(r)
    \/ DisplayFilterAdvanced(r)
    \/ DisplayFilterAdvancedReturn(r)
    \/ DisplayDigimonDetails(r)
    \/ DisplayDigimonDetailsReturn(r)
    \/ DisplayDigimonDetailsByName(r)
    \/ DisplayDigimonDetailsByNameReturn(r)
    \/ DisplayDigimonsByAttribute(r)
    \/ DisplayDigimonsByAttributeReturn(r)
    \/ DisplayDigimonsByLevel(r)
    \/ DisplayDigimonsByLevelReturn(r)
    \/ DisplayFilterForm(r)
    \/ TestDisplay(r)
    \/ UpstreamReply(r)
    \/ TransportFailure(r)
    \/ Tick(r)
    \/ DeadlineExceeded(r)

Spec == Init /\ [][Next]_vars

\* the service called directly: GetAllDigimonsSimple with any list query
NextQuery ==
  \E r \in Reqs :
    \/ GetAllDigimonsSimple(r)
    \/ GetAllDigimonsSimpleReturn(r)
    \/ UpstreamReply(r)
    \/ TransportFailure(r)
    \/ Tick(r)
    \/ DeadlineExceeded(r)

SpecQuery == Init /\ [][NextQuery]_vars

\* the handler of r resumes after httpClient.Do and writes its response
HandlerReturn(r) ==
  \/ DisplayListDigimonsReturn(r)
  \/ DisplayListDigimonsWithPaginationReturn(r)
  \/ DisplaySearchReturn(r)
  \/ DisplaySearchAdvancedReturn(r)
  \/ DisplayFilterReturn(r)
  \/ DisplayFilterAdvancedReturn(r)
  \/ DisplayDigimonDetailsReturn(r)
  \/ DisplayDigimonDetailsByNameReturn(r)
  \/ DisplayDigimonsByAttributeReturn(r)
  \/ DisplayDigimonsByLevelReturn(r)

\* the server under a fair scheduler and a running clock: a handler whose call has
\* returned is eventually resumed, time passes while a call is pending, and the timer
\* of a deadline that has elapsed fires; nothing obliges the upstream to answer
SpecLive ==
  /\ Init /\ [][Next]_vars
  /\ \A r \in Reqs :
       WF_vars(HandlerReturn(r)) /\ WF_vars(Tick(r)) /\ WF_vars(DeadlineExceeded(r))

\* two requests arrive and are handled concurrently, each in its own goroutine
InitConc ==
  /\ pc = [r \in Reqs |-> "idle"]
  /\ Quiet

\* the concurrent requests are for the list and for the details by name
NextConc ==
  \E r \in Reqs :
    \/ DisplayListDigimons(r)
    \/ DisplayListDigimonsReturn(r)
    \/ DisplayDigimonDetailsByName(r)
    \/ DisplayDigimonDetailsByNameReturn(r)
    \/ UpstreamReply(r)
    \/ TransportFailure(r)
    \/ Tick(r)
    \/ DeadlineExceeded(r)

SpecConc == InitConc /\ [][NextConc]_vars

\* ------------------------------------------------------------------ claims

\* the handlers that call the transport client
ListHandlers ==
  {"DisplayListDigimons", "DisplayListDigimonsWithPagination", "DisplaySearch",
   "DisplaySearchAdvanced", "DisplayFilter", "DisplayFilterAdvanced"}
DetailsHandlers == {"DisplayDigimonDetails", "DisplayDigimonDetailsByName"}
UpstreamHandlers ==
  ListHandlers \cup DetailsHandlers \cup {"DisplayDigimonsByAttribute", "DisplayDigimonsByLevel"}

\* the handler of r has returned
Done(r) == pc[r] = "done"

\* the upstream answered the call of r with a status other than 200
UpstreamStatusNot200(r) == net[r].kind = "reply" /\ net[r].status # StatusOK

\* what the transport client returned to the handler of r
TransportResult(r) ==
  LET h == req[r].handler
  IN IF h \in ListHandlers THEN GetAllDigimons(net[r])
     ELSE IF h \in DetailsHandlers THEN fetchDigimon(net[r])
     ELSE IF h = "DisplayDigimonsByAttribute" THEN fetchAttribute(net[r])
     ELSE fetchLevel(net[r])

\* C1: whenever the upstream answered a handler's call with a status s other than
\* 200, the handler's only response is an error response with exactly status s, and
\* no template is rendered.
C1_UpstreamStatusForwarded ==
  \A r \in Reqs :
    (Done(r) /\ UpstreamStatusNot200(r)) =>
      /\ req[r].handler \in UpstreamHandlers
      /\ Len(resp[r]) = 1
      /\ resp[r][1].kind = "error"
      /\ resp[r][1].status = net[r].status

C1_Witness ==
  \E r \in Reqs :
    /\ Done(r) /\ req[r].handler = "DisplayDigimonsByAttribute"
    /\ net[r].kind = "reply" /\ net[r].status = 503
    /\ resp[r][1].status = 503

\* C2: every transport client operation returns (record, 200, nil) for a 200 answer
\* with decodable JSON, (nil, s, error) for a status s other than 200, (nil, 500,
\* error) for a body that does not decode and (nil, 500, error) for a transport
\* failure or an elapsed deadline; so the error is non-nil exactly when the record is
\* nil or the status is not 200, and no handler dereferences a nil error or record.
C2_TransportOutcomes ==
  \A r \in Reqs :
    /\ net[r].kind \in {"reply", "fail"} =>
         LET n == net[r]
             res == TransportResult(r)
         IN /\ (n.kind = "reply" /\ n.status = StatusOK /\ n.body.json) =>
                 (res.rec = n.body.value /\ res.rec # Nil /\ res.status = 200
                  /\ res.err = NilErr)
            /\ (n.kind = "reply" /\ n.status # StatusOK) =>
                 (res.rec = Nil /\ res.status = n.status /\ res.err # NilErr)
            /\ (n.kind = "reply" /\ n.status = StatusOK /\ ~n.body.json) =>
                 (res.rec = Nil /\ res.status = 500 /\ res.err # NilErr)
            /\ n.kind = "fail" =>
                 (res.rec = Nil /\ res.status = 500 /\ res.err # NilErr)
            /\ (res.err # NilErr) <=> (res.rec = Nil \/ res.status # 200)
    /\ (Done(r) /\ net[r] = NoCall /\ resp[r][1].status = 500) =>
         (fetchNoRequest.rec = Nil /\ fetchNoRequest.err # NilErr)
    /\ \A i \in 1..Len(resp[r]) : resp[r][i].kind # "panic"

C2_Witness ==
  \E r \in Reqs :
    /\ Done(r) /\ req[r].handler = "DisplaySearch"
    /\ net[r] = Reply(StatusOK, Malformed)
    /\ resp[r][1].kind = "error" /\ resp[r][1].status = 500

\* C3: whenever the upstream call of a request did not succeed (a status other than
\* 200, a transport failure, an elapsed deadline or malformed JSON), the status of the
\* local response is outside 200..299.
C3_FailureIsNon2xx ==
  \A r \in Reqs :
    (/\ Done(r)
     /\ \/ net[r].kind = "fail"
        \/ net[r].kind = "reply" /\ (net[r].status # StatusOK \/ ~net[r].body.json))
    => \A i \in 1..Len(resp[r]) : resp[r][i].status \notin 200..299

\* the request of r was rejected with status 400 and no upstream call was issued
Rejected400(r) ==
  /\ Done(r) /\ out[r] = <<>> /\ net[r] = NoCall
  /\ Len(resp[r]) = 1 /\ resp[r][1].kind = "error" /\ resp[r][1].status = 400

\* s is the text of a decimal integer: an optional sign and one digit or more
NumericText(s) ==
  LET body == IF s # <<>> /\ s[1] \in {"+", "-"} THEN Tail(s) ELSE s
  IN body # <<>> /\ \A i \in 1..Len(body) : body[i] \in Digits

\* C4: a details-by-id request with a missing or non-numeric id, and a details-by-name,
\* by-attribute or by-level request with a missing or empty name, is answered with
\* status 400 and no upstream call is issued for it.
C4_ValidationRejectedLocally ==
  \A r \in Reqs :
    LET h == req[r].handler
        f == req[r].form
    IN /\ (h = "DisplayDigimonDetails" /\ ~NumericText(f.id)) => Rejected400(r)
       /\ (h = "DisplayDigimonDetailsByName" /\ f.name = <<>>) => Rejected400(r)
       /\ (h = "DisplayDigimonsByAttribute" /\ f.attribute = <<>>) => Rejected400(r)
       /\ (h = "DisplayDigimonsByLevel" /\ f.level = <<>>) => Rejected400(r)

C4_Witness ==
  \E r \in Reqs :
    /\ req[r].handler = "DisplayDigimonDetails" /\ req[r].form.id = <<"a">>
    /\ Rejected400(r)

\* C5: DisplayDigimonDetails issues the lookup GetDigimonByID(id) only when the id
\* parameter parses to an integer greater than 0, and rejects every other id value
\* with status 400 before any upstream call.
C5_LookupNeedsPositiveId ==
  \A r \in Reqs :
    req[r].handler = "DisplayDigimonDetails" =>
      IF Atoi(req[r].form.id).ok /\ Atoi(req[r].form.id).val > 0
        THEN out[r] = <<GetDigimonByID(Atoi(req[r].form.id).val)>>
        ELSE Rejected400(r)

\* C6: when the upstream answers a lookup by id or by name with 404, the response has
\* status 404 and the fixed not-found message; for any other status than 200 it has
\* the generic message that embeds the status code and the error text.
C6_NotFoundMessage ==
  \A r \in Reqs :
    (Done(r) /\ req[r].handler \in DetailsHandlers /\ UpstreamStatusNot200(r)) =>
      /\ Len(resp[r]) = 1
      /\ resp[r][1].kind = "error"
      /\ IF net[r].status = 404
           THEN resp[r][1].status = 404 /\ resp[r][1].text = Text("Digimon non trouve")
           ELSE resp[r][1].text =
                  [fmt |-> "Erreur service - code: %d message: %s",
                   code |-> net[r].status,
                   message |-> [msg |-> "code HTTP inattendu", code |-> net[r].status]]

C6_Witness ==
  \E r \in Reqs :
    /\ Done(r) /\ req[r].handler = "DisplayDigimonDetails"
    /\ net[r].kind = "reply" /\ net[r].status = 404
    /\ resp[r] = <<HttpError(Text("Digimon non trouve"), 404)>>

\* every character of s is white space
AllSpace(s) == \A k \in 1..Len(s) : s[k] \in Space

\* t is raw without its leading and trailing white space, and is not empty
IsTrimOf(t, raw) ==
  \E i \in 1..Len(raw) : \E j \in i..Len(raw) :
    /\ t = SubSeq(raw, i, j)
    /\ raw[i] \notin Space /\ raw[j] \notin Space
    /\ \A k \in 1..(i - 1) : raw[k] \in Space
    /\ \A k \in (j + 1)..Len(raw) : raw[k] \in Space

\* the number of parameters named k in the raw query of g
ParamCount(g, k) == Cardinality({i \in 1..Len(g.query) : g.query[i][1] = k})

PageUsed(raw) == IF Atoi(raw).ok /\ Atoi(raw).val > 0 THEN Atoi(raw).val ELSE 0

DecimalOf(s, n) ==
  /\ s # <<>> /\ \A i \in 1..Len(s) : s[i] \in Digits
  /\ s[1] # "0" \/ Len(s) = 1
  /\ DigitsVal(s) = n

\* C9: the paginated listing uses the parsed page when the page parameter is a
\* positive integer and 0 otherwise, without ever rejecting the request; its upstream
\* call always carries pageSize=20, and carries page=<value> exactly when the page
\* used is greater than 0.
C9_PageFallback ==
  \A r \in Reqs :
    req[r].handler = "DisplayListDigimonsWithPagination" =>
      LET N == PageUsed(req[r].form.page)
      IN /\ Len(out[r]) = 1
         /\ out[r][1].path = <<"digimon">>
         /\ ParamCount(out[r][1], "pageSize") = 1
         /\ Param(out[r][1], "pageSize") = <<"2", "0">>
         /\ ParamCount(out[r][1], "page") = (IF N > 0 THEN 1 ELSE 0)
         /\ N > 0 => DecimalOf(Param(out[r][1], "page"), N)
         /\ (Done(r) /\ resp[r][1].kind = "error") =>
              (net[r].kind = "fail" \/ net[r].status # StatusOK \/ ~net[r].body.json)
         /\ (Done(r) /\ resp[r][1].kind = "render") => resp[r][1].data.CurrentPage = N

C9_Witness ==
  \E r \in Reqs :
    /\ Done(r) /\ req[r].handler = "DisplayListDigimonsWithPagination"
    /\ req[r].form.page = <<"-", "1">>
    /\ ParamCount(out[r][1], "page") = 0
    /\ resp[r][1].kind = "render" /\ resp[r][1].data.CurrentPage = 0

\* C10: in the advanced-search handler the exact flag is true exactly when the raw
\* exact value is "true" or "on"; the upstream query string has exact=true exactly
\* when the flag is true and has no exact parameter otherwise.
C10_ExactFlag ==
  \A r \in Reqs :
    (req[r].handler = "DisplaySearchAdvanced" /\ out[r] # <<>>) =>
      LET flag == req[r].form.exact \in {"true", "on"}
      IN /\ ParamCount(out[r][1], "exact") = (IF flag THEN 1 ELSE 0)
         /\ flag => Param(out[r][1], "exact") = <<"t", "r", "u", "e">>
         /\ (Done(r) /\ resp[r][1].kind = "render") => (resp[r][1].data.Exact <=> flag)

C10_Witness ==
  \E r \in Reqs :
    /\ Done(r) /\ req[r].handler = "DisplaySearchAdvanced"
    /\ req[r].form.exact = "on" /\ Len(out[r]) = 1
    /\ Param(out[r][1], "exact") = <<"t", "r", "u", "e">>
    /\ resp[r][1].kind = "render" /\ resp[r][1].data.Exact

\* the number of times the outbound request g must carry a parameter
Sent(b) == IF b THEN 1 ELSE 0

\* C11: for every list query passed to GetAllDigimons, the outbound request carries
\* each optional parameter exactly when its field is set -- name iff Name is not
\* empty, exact=true iff Exact, attribute iff Attribute is not empty, xAntibody (true
\* or false) iff the pointer is not nil, level iff Level is not empty, page iff
\* Page > 0, pageSize iff PageSize > 0 -- with the value of the field, and nothing
\* else; a nil list query, or one with no field set, gives no query parameter at all.
C11_QueryParameters ==
  \A r \in Reqs :
    req[r].handler = "GetAllDigimonsSimple" =>
      /\ Len(out[r]) = 1
      /\ LET g == out[r][1]
             o == req[r].form
         IN /\ g.path = <<"digimon">>
            /\ IF o = Nil THEN g.query = <<>>
               ELSE /\ ParamCount(g, "name") = Sent(o.Name # <<>>)
                    /\ o.Name # <<>> => Param(g, "name") = o.Name
                    /\ ParamCount(g, "exact") = Sent(o.Exact)
                    /\ o.Exact => Param(g, "exact") = <<"t", "r", "u", "e">>
                    /\ ParamCount(g, "attribute") = Sent(o.Attribute # <<>>)
                    /\ o.Attribute # <<>> => Param(g, "attribute") = o.Attribute
                    /\ ParamCount(g, "xAntibody") = Sent(o.XAntibody # "nil")
                    /\ o.XAntibody = "true" => Param(g, "xAntibody") = <<"t", "r", "u", "e">>
                    /\ o.XAntibody = "false"
                         => Param(g, "xAntibody") = <<"f", "a", "l", "s", "e">>
                    /\ ParamCount(g, "level") = Sent(o.Level # <<>>)
                    /\ o.Level # <<>> => Param(g, "level") = o.Level
                    /\ ParamCount(g, "page") = Sent(o.Page > 0)
                    /\ o.Page > 0 => DecimalOf(Param(g, "page"), o.Page)
                    /\ ParamCount(g, "pageSize") = Sent(o.PageSize > 0)
                    /\ o.PageSize > 0 => DecimalOf(Param(g, "pageSize"), o.PageSize)
                    /\ Len(g.query) =
                         Sent(o.Name # <<>>) + Sent(o.Exact) + Sent(o.Attribute # <<>>)
                         + Sent(o.XAntibody # "nil") + Sent(o.Level # <<>>)
                         + Sent(o.Page > 0) + Sent(o.PageSize > 0)

\* a list query with xAntibody false, a blank name, page 0 and a negative page size
\* has been sent, with exactly two parameters
C11_Witness ==
  \E r \in Reqs :
    /\ req[r].handler = "GetAllDigimonsSimple" /\ Len(out[r]) = 1
    /\ req[r].form # Nil
    /\ req[r].form.XAntibody = "false" /\ req[r].form.Name = <<" ">>
    /\ req[r].form.Page = 0 /\ req[r].form.PageSize = -1 /\ ~req[r].form.Exact
    /\ Len(out[r][1].query) = 2

\* C12: in the filter handler, for every combination of level, attribute and
\* xantibody form values, the single upstream list call carries pageSize=100, level
\* iff the trimmed level is not empty, attribute iff the trimmed attribute is not
\* empty, and xAntibody=true iff the raw xantibody value is "true" or "on"; it never
\* carries xAntibody=false nor any other parameter; and the Digimons list rendered is
\* exactly the content of the upstream answer.
C12_FilterCall ==
  \A r \in Reqs :
    (req[r].handler = "DisplayFilter" /\ ~req[r].form.parseErr) =>
      /\ Len(out[r]) = 1
      /\ LET g == out[r][1]
             f == req[r].form
         IN /\ g.path = <<"digimon">>
            /\ ParamCount(g, "pageSize") = 1
            /\ Param(g, "pageSize") = <<"1", "0", "0">>
            /\ ParamCount(g, "level") = Sent(~AllSpace(f.level))
            /\ ~AllSpace(f.level) => IsTrimOf(Param(g, "level"), f.level)
            /\ ParamCount(g, "attribute") = Sent(~AllSpace(f.attribute))
            /\ ~AllSpace(f.attribute) => IsTrimOf(Param(g, "attribute"), f.attribute)
            /\ ParamCount(g, "xAntibody") = Sent(f.xantibody \in {"true", "on"})
            /\ HasParam(g, "xAntibody") => Param(g, "xAntibody") = <<"t", "r", "u", "e">>
            /\ Len(g.query) = 1 + Sent(~AllSpace(f.level)) + Sent(~AllSpace(f.attribute))
                                + Sent(f.xantibody \in {"true", "on"})
      /\ (Done(r) /\ net[r].kind = "reply" /\ net[r].status = StatusOK /\ net[r].body.json) =>
           /\ Len(resp[r]) = 1
           /\ resp[r][1].kind = "render"
           /\ resp[r][1].data.Digimons = net[r].body.value.Content

\* the filter handler has been asked for a padded level with the box left at "false",
\* and has rendered the two digimons the upstream answered with
C12_Witness ==
  \E r \in Reqs :
    /\ Done(r) /\ req[r].handler = "DisplayFilter"
    /\ req[r].form.level = <<" ", "R">> /\ req[r].form.attribute = <<>>
    /\ req[r].form.xantibody = "false"
    /\ Len(out[r]) = 1 /\ Param(out[r][1], "level") = <<"R">>
    /\ ~HasParam(out[r][1], "xAntibody")
    /\ Len(resp[r]) = 1 /\ resp[r][1].kind = "render"
    /\ Len(resp[r][1].data.Digimons) = 2

\* a criterion of the advanced filter is supplied
Supplied(f) == f.levels # <<>> \/ f.attributes # <<>> \/ f.xantibody # ""

\* the upstream call of r came back with status 200 and a body that decodes
Fetched(r) == net[r].kind = "reply" /\ net[r].status = StatusOK /\ net[r].body.json

\* C13: in the advanced-filter handler, exactly one upstream list call is made, with
\* pageSize=500 and no filter parameter, whatever the criteria; when it succeeds, the
\* rendered list is empty and Total is 0 if any of levels, attributes or xantibody is
\* supplied (any entry, any non-empty xantibody value), and is the whole fetched
\* content in the same order with Total its length if none is; when it fails, the
\* response is an error even if a criterion is supplied.
C13_AdvancedFilter ==
  \A r \in Reqs :
    (req[r].handler = "DisplayFilterAdvanced" /\ ~req[r].form.parseErr) =>
      /\ Len(out[r]) = 1
      /\ out[r][1].path = <<"digimon">>
      /\ out[r][1].query = <<<<"pageSize", <<"5", "0", "0">>>>>>
      /\ Done(r) =>
           /\ Len(resp[r]) = 1
           /\ IF Fetched(r)
                THEN /\ resp[r][1].kind = "render"
                     /\ resp[r][1].data.Digimons =
                          (IF Supplied(req[r].form) THEN <<>>
                           ELSE net[r].body.value.Content)
                     /\ resp[r][1].data.Total =
                          (IF Supplied(req[r].form) THEN 0
                           ELSE Len(net[r].body.value.Content))
                ELSE resp[r][1].kind = "error"

\* the advanced filter has rendered an empty list for a fetched content of two
\* digimons, the only criterion supplied being xantibody=false
C13_Witness ==
  \E r \in Reqs :
    /\ Done(r) /\ req[r].handler = "DisplayFilterAdvanced"
    /\ req[r].form.levels = <<>> /\ req[r].form.attributes = <<>>
    /\ req[r].form.xantibody = "false"
    /\ Fetched(r) /\ Len(net[r].body.value.Content) = 2
    /\ Len(resp[r]) = 1 /\ resp[r][1].kind = "render"
    /\ resp[r][1].data.Digimons = <<>> /\ resp[r][1].data.Total = 0

\* the upstream call of r has failed: no answer, or an answer other than a 200 that
\* decodes
CallFailed(r) == net[r].kind = "fail" \/ (net[r].kind = "reply" /\ ~Fetched(r))

\* C14: no retry -- a request issues at most one upstream GET, and once that call has
\* failed (transport error, deadline, or a status other than 200) no further call is
\* issued for the request: the only step the request then takes is its handler
\* writing the error response and finishing.
C14_NoRetry ==
  [][\A r \in Reqs :
       /\ Len(out'[r]) <= 1
       /\ CallFailed(r) =>
            /\ out'[r] = out[r] /\ net'[r] = net[r] /\ req'[r] = req[r]
            /\ (pc'[r] # pc[r] \/ resp'[r] # resp[r]) =>
                 /\ pc[r] = "await" /\ pc'[r] = "done"
                 /\ Len(resp'[r]) = 1 /\ resp'[r][1].kind = "error"]_vars

\* a search whose call the upstream answered with 503 has finished with an error
\* response after that single call
C14_Witness ==
  \E r \in Reqs :
    /\ Done(r) /\ req[r].handler = "DisplaySearch"
    /\ Len(out[r]) = 1
    /\ net[r].kind = "reply" /\ net[r].status = 503
    /\ Len(resp[r]) = 1 /\ resp[r][1].kind = "error"

\* everything the server holds for request r
Own(r) == <<pc[r], req[r], out[r], net[r], resp[r]>>

\* C15: every request that has been received eventually completes, even if the
\* upstream never answers -- a request leaves its upstream call only by completing and
\* stays completed, and eventually no request is left waiting on its call -- and
\* completes with exactly one outcome -- a template render, an error response or a
\* redirect -- nothing being written before; when the deadline of its call elapses or
\* the connection is dropped, the outcome is an error response with status 500 and
\* nothing rendered.
C15_Completes ==
  /\ [](\A r \in Reqs :
         /\ ~Done(r) => resp[r] = <<>>
         /\ Done(r) =>
              /\ Len(resp[r]) = 1
              /\ resp[r][1].kind \in {"render", "error", "redirect"}
              /\ net[r].kind = "fail" =>
                   /\ resp[r][1].kind = "error"
                   /\ resp[r][1].status = StatusInternalServerError
                   /\ resp[r][1].data = Nil)
  /\ [][\A r \in Reqs :
          /\ pc[r] = "await" => pc'[r] \in {"await", "done"}
          /\ Done(r) => Own(r)' = Own(r)]_vars
  /\ <>[](\A r \in Reqs : pc[r] # "await")

\* the whole deadline of a call has elapsed without an answer, and the request has
\* completed with a 500
C15_Witness ==
  \E r \in Reqs :
    /\ Done(r) /\ Len(out[r]) = 1
    /\ net[r] = Failure("deadline")
    /\ resp[r][1].kind = "error" /\ resp[r][1].status = StatusInternalServerError

\* C16: concurrent requests are independent -- under every interleaving of two
\* in-flight requests, a step taken for one request (its arrival, its validation
\* failure, an upstream answer or error, a second of its deadline, its deadline
\* expiring, its response) leaves the upstream query, the deadline and the response of
\* the other unchanged; the upstream query of a request is determined by its inputs
\* alone, and its response by its inputs and the answer to its own call.
C16_Independent ==
  /\ [](\A r \in Reqs : \A o \in Reqs :
         /\ (pc[r] # "idle" /\ pc[o] # "idle" /\ req[r] = req[o]) => out[r] = out[o]
         /\ (Done(r) /\ Done(o) /\ req[r] = req[o] /\ net[r] = net[o]) => resp[r] = resp[o])
  /\ [][\A r \in Reqs : \A o \in Reqs \ {r} : Own(r)' # Own(r) => Own(o)' = Own(o)]_vars

\* two requests were in flight together: the call of one ran into its deadline and
\* was answered 500 while the other, for the same list, was rendered
C16_Witness ==
  /\ Done("r1") /\ Done("r2")
  /\ req["r1"] = req["r2"] /\ req["r1"].handler = "DisplayListDigimons"
  /\ net["r1"] = Failure("deadline") /\ Fetched("r2")
  /\ resp["r1"][1].kind = "error" /\ resp["r2"][1].kind = "render"

====
